---------------------------- MODULE Spec2Model ----------------------------
(***************************************************************************)
(* A model of typix-benchmark/benchmark.py: the request executor           *)
(* (make_request), the single-shot driver (test_single_request), the       *)
(* fixed-concurrency driver (test_concurrent with its asyncio.Semaphore),  *)
(* the statistics engine (calculate_stats), the reporter (print_results)   *)
(* and the ramp driver (run_ramp_test).                                    *)
(*                                                                         *)
(* Time is a logical clock `now` counted in ticks of TickSeconds seconds;   *)
(* time.perf_counter() reads it in seconds.  The code between two awaits   *)
(* runs atomically on the asyncio event loop, so one action is one such    *)
(* segment of a coroutine.                                                 *)
(***************************************************************************)
EXTENDS Integers, Sequences, FiniteSets, TLC

VARIABLES
    concurrency,   \* test_concurrent's parameter `concurrency`
    total,         \* test_concurrent's parameter `total_requests`
    pc,            \* position of the driver coroutine
    sem,           \* the asyncio.Semaphore: [value, waiters]
    task,          \* the bounded_request tasks: [st, start, acquired, finished, outcome, res]
    doneq,         \* as_completed's queue of finished tasks, oldest first
    results,       \* the driver's `results` list
    order,         \* history: the task each element of `results` came from
    progress,      \* number of progress.advance(task) calls
    now,           \* the monotonic clock, in ticks
    env,           \* the outcomes the network may produce in this run
    stats,         \* the last value returned by calculate_stats
    stage,         \* run_ramp_test: index of the level being run (0: no ramp)
    all_stats,     \* run_ramp_test's `all_stats` list
    sleeps,        \* number of completed asyncio.sleep(2) cooldowns
    report,        \* what run_ramp_test printed after the summary table
    printed        \* what the calls of print_results printed, oldest first

vars == << concurrency, total, pc, sem, task, doneq, results, order,
           progress, now, env, stats, stage, all_stats, sleeps, report,
           printed >>

----------------------------------------------------------------------------
(* Bounds of the model *)

\* largest total_requests of a modelled run
MaxN == 3
\* largest concurrency of a modelled run
MaxC == 2
\* length of one clock tick in seconds
TickSeconds == 15

\* client.post(..., timeout=30.0)
TimeoutSeconds == 30
\* a network call returns or fails before its timeout is over
MaxLatency == TimeoutSeconds \div TickSeconds

Tasks == 1 .. MaxN

----------------------------------------------------------------------------
(* RequestResult and the outcomes of client.post *)

None == << >>
Some(x) == << x >>

RequestResult(latency, success, error) ==
    [latency_ms |-> latency, success |-> success, error |-> error]

Response(status) == [kind |-> "response", status |-> status]
Failure(type, msg) == [kind |-> "exception", type |-> type, msg |-> msg]

\* the exceptions httpx raises out of client.post, with their str()
ConnectError == Failure("ConnectError", "All connection attempts failed")
ReadTimeout == Failure("ReadTimeout", "")
RemoteProtocolError ==
    Failure("RemoteProtocolError", "Server disconnected without sending a response.")

StatusCodes == {200, 201, 204, 299, 301, 404, 500, 503}
Exceptions == {ConnectError, ReadTimeout, RemoteProtocolError}
AllOutcomes == {Response(s) : s \in StatusCodes} \cup Exceptions
\* the outcomes drawn in the concurrency runs
RunOutcomes == {Response(200), ReadTimeout}

\* str(e)
Str(e) == e.msg

\* f"HTTP {response.status_code}"
HttpError(status) == "HTTP " \o ToString(status)

\* (time.perf_counter() - start) * 1000, perf_counter reading seconds
LatencyMs(start, end) == ((end - start) * TickSeconds) * 1000

Return(v) == [kind |-> "return", value |-> v]
Raise(e) == [kind |-> "raise", exc |-> e]

\* a handler that lets the failure of client.post escape
make_request_uncaught(outcome, start, end) ==
    IF outcome.kind = "response"
    THEN IF outcome.status = 200
         THEN Return(RequestResult(LatencyMs(start, end), TRUE, None))
         ELSE Return(RequestResult(LatencyMs(start, end), FALSE,
                                   Some(HttpError(outcome.status))))
    ELSE Raise(outcome)

\* make_request from `start = time.perf_counter()` on: `outcome` is what
\* client.post did, `end` the clock when it did.
make_request(outcome, start, end) ==
    IF outcome.kind = "response"
    THEN IF outcome.status = 200
         THEN Return(RequestResult(LatencyMs(start, end), TRUE, None))
         ELSE Return(RequestResult(LatencyMs(start, end), FALSE,
                                   Some(HttpError(outcome.status))))
    ELSE Return(RequestResult(LatencyMs(start, end), FALSE, Some(Str(outcome))))

----------------------------------------------------------------------------
(* asyncio.Semaphore, as CPython 3.11 and later implement it: release()     *)
(* hands the permit to the oldest waiter, and a task that finds waiters     *)
(* queues behind them.                                                      *)

Semaphore(value) == [value |-> value, waiters |-> << >>]

\* a locked() that never reports the semaphore taken
locked_never(s) == FALSE

\* Semaphore.locked(): no permit, or somebody already queues for one
locked(s) == s.value = 0 \/ s.waiters # << >>

\* Semaphore._wake_up_next(): the oldest waiter whose future is not done yet
\* gets the permit and is woken; it leaves the queue when it resumes.
wake_up_next(s, tk) ==
    LET pending == {i \in DOMAIN s.waiters : tk[s.waiters[i]].st = "waiting"}
    IN  IF pending = {}
        THEN [sem |-> s, task |-> tk]
        ELSE LET i == CHOOSE j \in pending : \A k \in pending : j <= k
             IN  [sem |-> [s EXCEPT !.value = s.value - 1],
                  task |-> [tk EXCEPT ![s.waiters[i]] =
                               [@ EXCEPT !.st = "woken", !.acquired = now]]]

\* a release() that keeps the permit
release_nothing(s, tk) == [sem |-> s, task |-> tk]

\* a release() that returns the permit and wakes nobody
release_no_wake(s, tk) == [sem |-> [s EXCEPT !.value = s.value + 1], task |-> tk]

\* Semaphore.release()
release(s, tk) == wake_up_next([s EXCEPT !.value = s.value + 1], tk)

----------------------------------------------------------------------------
(* calculate_stats *)

RECURSIVE GCD(_, _)
GCD(a, b) == IF b = 0 THEN a ELSE GCD(b, a % b)

\* the quotient a / b of two numbers, b > 0, kept exact and in lowest terms
Rat(a, b) == [num |-> a \div GCD(a, b), den |-> b \div GCD(a, b)]

RECURSIVE SeqSum(_)
SeqSum(s) == IF s = << >> THEN 0 ELSE Head(s) + SeqSum(Tail(s))

\* a filter that keeps every result
successful_all(rs) == rs

\* successful = [r for r in results if r.success]
successful_of(rs) == SelectSeq(rs, LAMBDA r : r.success)

\* latencies = [r.latency_ms for r in successful]
latencies_of(succ) == [i \in 1 .. Len(succ) |-> succ[i].latency_ms]

\* sorted(latencies)
sorted(lat) == SortSeq(lat, LAMBDA a, b : a < b)

\* int(n * fraction) for the fractions 0.50, 0.95 and 0.99, given in percent.
\* The double product truncates to the exact floor for every n the program
\* can meet (checked numerically for all n below 400).
PctIndex(n, pct) == (n * pct) \div 100

\* sorted_latencies[k] of Python, k from 0; sorted_latencies[-1] is At(s, Len(s) - 1)
At(s, k) == s[k + 1]

\* "p50": sorted_latencies[int(n * 0.50)]
p50_of(s) == At(s, PctIndex(Len(s), 50))

\* a p95 that always falls back to the maximum
p95_max(s) == At(s, Len(s) - 1)

\* "p95": sorted_latencies[int(n * 0.95)] if n >= 20 else sorted_latencies[-1]
p95_of(s) == IF Len(s) >= 20 THEN At(s, PctIndex(Len(s), 95)) ELSE At(s, Len(s) - 1)

\* "p99": sorted_latencies[int(n * 0.99)] if n >= 100 else sorted_latencies[-1]
p99_of(s) == IF Len(s) >= 100 THEN At(s, PctIndex(Len(s), 99)) ELSE At(s, Len(s) - 1)

\* min(latencies), max(latencies)
min_of(lat) == CHOOSE x \in {lat[i] : i \in DOMAIN lat} :
                   \A i \in DOMAIN lat : x <= lat[i]
max_of(lat) == CHOOSE x \in {lat[i] : i \in DOMAIN lat} :
                   \A i \in DOMAIN lat : x >= lat[i]

\* a throughput over the wall-clock count of all results
throughput_all(rs, succ, lat) ==
    IF SeqSum(lat) = 0
    THEN Raise("ZeroDivisionError")
    ELSE Return(Rat(Len(rs) * 1000, SeqSum(lat)))

\* len(successful) / (sum(latencies) / 1000) if latencies else 0
throughput_of(rs, succ, lat) ==
    IF lat = << >>
    THEN Return(Rat(0, 1))
    ELSE IF SeqSum(lat) = 0
         THEN Raise("ZeroDivisionError")
         ELSE Return(Rat(Len(succ) * 1000, SeqSum(lat)))

\* the sentinel dict
NoData == [error |-> "No successful requests"]

\* `if not latencies`
no_latencies(rs, lat) == lat = << >>

\* calculate_stats(results): Return(dict) or the exception it raises.  The
\* dict's entries are evaluated in order, so a failing entry loses them all.
calculate_stats(rs) ==
    LET succ == successful_of(rs)
        lat == latencies_of(succ)
    IN  IF no_latencies(rs, lat)
        THEN Return(NoData)
        ELSE LET s == sorted(lat)
                 th == throughput_of(rs, succ, lat)
             IN  IF th.kind = "raise"
                 THEN th
                 ELSE Return([total |-> Len(rs),
                              success |-> Len(succ),
                              errors |-> Len(rs) - Len(succ),
                              min |-> min_of(lat),
                              max |-> max_of(lat),
                              avg |-> Rat(SeqSum(lat), Len(lat)),
                              p50 |-> p50_of(s),
                              p95 |-> p95_of(s),
                              p99 |-> p99_of(s),
                              throughput |-> th.value])

\* an `"error" in stats` that finds no dict to be the sentinel
IsNoData_never(d) == FALSE

\* `"error" in stats`
IsNoData(d) == "error" \in DOMAIN d

----------------------------------------------------------------------------
(* print_results *)

\* the targets of the P50, P95 and P99 rows
P50Target == 300
P95Target == 500
\* P99 >= 800 ms is degraded
P99Target == 800

\* status(value, target): "PASS" if value <= target else "FAIL"
status(value, target) == IF value <= target THEN "PASS" ELSE "FAIL"

\* the keys print_results reads of a dict it takes for a statistics record
TableKeys == {"total", "success", "errors", "min", "avg", "p50", "p95", "p99",
              "max", "throughput"}

\* print_results(title, stats): the red line of the sentinel, or the Status
\* column of the table; reading a key the dict does not have is a KeyError.
print_results(title, d) ==
    IF IsNoData(d)
    THEN Return([kind |-> "error", title |-> title, text |-> d.error])
    ELSE IF ~(TableKeys \subseteq DOMAIN d)
         THEN Raise("KeyError")
         ELSE Return([kind |-> "table", title |-> title,
                      errors |-> IF d.errors = 0 THEN "OK" ELSE "!!!",
                      p50 |-> status(d.p50, P50Target),
                      p95 |-> status(d.p95, P95Target),
                      p99 |-> status(d.p99, P99Target)])

----------------------------------------------------------------------------
(* test_concurrent *)

\* a task: its state, the `start` stamp of its make_request, the result it
\* returned, and as history the time it got its permit, its place in the
\* order in which the tasks finished and what client.post did
NoTask == [st |-> "none", start |-> 0, acquired |-> 0, finished |-> 0,
           outcome |-> None, res |-> None]
NoStats == [kind |-> "none"]

Remove(q, t) == SelectSeq(q, LAMBDA x : x # t)
Range(q) == {q[i] : i \in DOMAIN q}

InFlight == {t \in Tasks : task[t].st = "inflight"}

\* test_concurrent(c, n) up to its first await: results = [], the semaphore,
\* the n coroutines, and as_completed scheduling each of them as a task.
StartRun(c, n) ==
    /\ concurrency' = c
    /\ total' = n
    /\ results' = << >>
    /\ order' = << >>
    /\ progress' = 0
    /\ sem' = Semaphore(c)
    /\ task' = [t \in Tasks |->
                  IF t <= n THEN [NoTask EXCEPT !.st = "ready"] ELSE NoTask]
    /\ doneq' = << >>

\* main, --concurrent: the call of test_concurrent
MainStart ==
    /\ pc = "main"
    /\ StartRun(concurrency, total)
    /\ pc' = "collecting"
    /\ UNCHANGED << now, env, stats, stage, all_stats, sleeps, report, printed >>

\* bounded_request starts: `async with semaphore` takes a permit and
\* make_request stamps `start` and issues the call, or the task queues.
TaskStart(t) ==
    /\ pc = "collecting"
    /\ task[t].st = "ready"
    /\ IF ~locked(sem)
       THEN /\ sem' = [sem EXCEPT !.value = sem.value - 1]
            /\ task' = [task EXCEPT ![t] = [@ EXCEPT !.st = "inflight",
                                                     !.start = now,
                                                     !.acquired = now]]
       ELSE /\ sem' = [sem EXCEPT !.waiters = Append(sem.waiters, t)]
            /\ task' = [task EXCEPT ![t].st = "waiting"]
    /\ UNCHANGED << concurrency, total, pc, doneq, results, order, progress,
                    now, env, stats, stage, all_stats, sleeps, report, printed >>

\* a resume whose make_request takes no `start` stamp of its own
TaskResumeNoStamp(t) ==
    /\ pc = "collecting"
    /\ task[t].st = "woken"
    /\ LET s1 == [sem EXCEPT !.waiters = Remove(sem.waiters, t)]
           tk1 == [task EXCEPT ![t] = [@ EXCEPT !.st = "inflight"]]
           w == IF s1.value > 0 THEN wake_up_next(s1, tk1)
                                ELSE [sem |-> s1, task |-> tk1]
       IN  /\ sem' = w.sem
           /\ task' = w.task
    /\ UNCHANGED << concurrency, total, pc, doneq, results, order, progress,
                    now, env, stats, stage, all_stats, sleeps, report, printed >>

\* a woken waiter resumes in acquire(): it leaves the queue, passes on a
\* permit that is free, and make_request stamps `start` and issues the call.
TaskResume(t) ==
    /\ pc = "collecting"
    /\ task[t].st = "woken"
    /\ LET s1 == [sem EXCEPT !.waiters = Remove(sem.waiters, t)]
           tk1 == [task EXCEPT ![t] = [@ EXCEPT !.st = "inflight",
                                                !.start = now]]
           w == IF s1.value > 0 THEN wake_up_next(s1, tk1)
                                ELSE [sem |-> s1, task |-> tk1]
       IN  /\ sem' = w.sem
           /\ task' = w.task
    /\ UNCHANGED << concurrency, total, pc, doneq, results, order, progress,
                    now, env, stats, stage, all_stats, sleeps, report, printed >>

\* client.post returns or fails: make_request ends, `async with` releases
\* the permit and the task is done.
Complete(t) ==
    /\ pc = "collecting"
    /\ task[t].st = "inflight"
    /\ now > task[t].start
    /\ \E o \in env :
         LET r == make_request(o, task[t].start, now)
             tk1 == [task EXCEPT ![t] = [NoTask EXCEPT
                        !.st = IF r.kind = "return" THEN "done" ELSE "failed",
                        !.finished = Cardinality({u \in Tasks : task[u].finished > 0}) + 1,
                        !.outcome = Some(o),
                        !.res = IF r.kind = "return" THEN Some(r.value) ELSE None]]
             rel == release(sem, tk1)
         IN  /\ sem' = rel.sem
             /\ task' = rel.task
             /\ doneq' = Append(doneq, t)
    /\ UNCHANGED << concurrency, total, pc, results, order, progress,
                    now, env, stats, stage, all_stats, sleeps, report, printed >>

\* time passes while calls are in flight; none outlasts MaxLatency
Tick ==
    /\ pc = "collecting"
    /\ InFlight # {}
    /\ \A t \in InFlight : now - task[t].start < MaxLatency
    /\ now' = now + 1
    /\ UNCHANGED << concurrency, total, pc, sem, task, doneq, results, order,
                    progress, env, stats, stage, all_stats, sleeps, report, printed >>

\* a loop that stops one result short
run_done_early(collected, n) == collected >= n - 1

\* `for coro in asyncio.as_completed(tasks)` ends after one item per task
run_done(collected, n) == collected = n

\* a loop that awaits the tasks in the order of their creation
CollectInLaunchOrder ==
    /\ pc = "collecting"
    /\ task[Len(results) + 1].st = "done"
    /\ results' = Append(results, task[Len(results) + 1].res[1])
    /\ order' = Append(order, Len(results) + 1)
    /\ progress' = progress + 1
    /\ pc' = IF Len(results) + 1 = total THEN "returned" ELSE "collecting"
    /\ doneq' = Remove(doneq, Len(results) + 1)
    /\ UNCHANGED << concurrency, total, sem, task, now, env, stats, stage,
                    all_stats, sleeps, report, printed >>

\* `result = await coro; results.append(result); progress.advance(task)` for
\* the oldest finished task; a task that raised raises out of the driver.
Collect ==
    /\ pc = "collecting"
    /\ doneq # << >>
    /\ LET t == Head(doneq)
       IN  IF task[t].st = "failed"
           THEN /\ pc' = "aborted"
                /\ UNCHANGED << results, order, progress >>
           ELSE /\ results' = Append(results, task[t].res[1])
                /\ order' = Append(order, t)
                /\ progress' = progress + 1
                /\ pc' = IF run_done(Len(results) + 1, total) THEN "returned"
                                                                ELSE "collecting"
    /\ doneq' = Tail(doneq)
    /\ UNCHANGED << concurrency, total, sem, task, now, env, stats, stage,
                    all_stats, sleeps, report, printed >>

\* main, --concurrent: stats = calculate_stats(results); print_results(...)
MainReport ==
    /\ pc = "returned"
    /\ stage = 0
    /\ \E c \in {calculate_stats(results)} :
         /\ stats' = c
         /\ IF c.kind = "raise"
            THEN pc' = "crashed" /\ UNCHANGED printed
            ELSE \E p \in {print_results("Concurrent: " \o ToString(concurrency),
                                         c.value)} :
                   IF p.kind = "raise"
                   THEN pc' = "crashed" /\ UNCHANGED printed
                   ELSE pc' = "reported" /\ printed' = Append(printed, p.value)
    /\ UNCHANGED << concurrency, total, sem, task, doneq, results, order,
                    progress, now, env, stage, all_stats, sleeps, report >>

RunNext ==
    \/ \E t \in Tasks : TaskStart(t)
    \/ \E t \in Tasks : TaskResume(t)
    \/ \E t \in Tasks : Complete(t)
    \/ Tick
    \/ Collect

Idle ==
    /\ sem = Semaphore(0)
    /\ task = [t \in Tasks |-> NoTask]
    /\ doneq = << >>
    /\ results = << >>
    /\ order = << >>
    /\ progress = 0
    /\ now = 0
    /\ stats = NoStats
    /\ stage = 0
    /\ all_stats = << >>
    /\ sleeps = 0
    /\ report = None
    /\ printed = << >>

\* main --concurrent C, for every C and N of the bounds
Init ==
    /\ concurrency \in 1 .. MaxC
    /\ total \in 1 .. MaxN
    /\ pc = "main"
    /\ env = RunOutcomes
    /\ Idle

Next == MainStart \/ RunNext \/ MainReport

Spec == Init /\ [][Next]_vars

\* the event loop runs whatever is runnable, calls return and time passes
FairSpec == Init /\ [][Next]_vars /\ WF_vars(Next)

\* one or two requests through one slot, the network free to answer with
\* every status code and every failure
RequestInit ==
    /\ concurrency = 1
    /\ total \in 1 .. 2
    /\ pc = "main"
    /\ env = AllOutcomes
    /\ Idle

RequestSpec == RequestInit /\ [][Next]_vars

\* def test_concurrent(concurrency: int, total_requests: int = 50)
DefaultTotalRequests == 50

\* the value the parameter total_requests is bound to: the argument of the
\* call, or the default when the call gives none
total_requests(arg) == IF arg = None THEN DefaultTotalRequests ELSE arg[1]

\* largest concurrency test_concurrent is called with on its own
MaxLevel == 60

\* test_concurrent(concurrency), no request count given, up to its first
\* await: the parameters are bound and the coroutines created
CallDefault ==
    /\ pc = "call"
    /\ total' = total_requests(None)
    /\ sem' = Semaphore(concurrency)
    /\ task' = [t \in 1 .. total_requests(None) |-> [NoTask EXCEPT !.st = "ready"]]
    /\ pc' = "collecting"
    /\ UNCHANGED << concurrency, doneq, results, order, progress, now, env,
                    stats, stage, all_stats, sleeps, report, printed >>

DefaultInit ==
    /\ concurrency \in 1 .. MaxLevel
    /\ total = 0
    /\ pc = "call"
    /\ env = RunOutcomes
    /\ Idle

DefaultSpec == DefaultInit /\ [][CallDefault]_vars

----------------------------------------------------------------------------
(* test_single_request *)

\* for i in range(5)
SingleRuns == 5

\* test_single_request up to its loop: results = [] and the progress task
SingleBegin ==
    /\ pc = "single"
    /\ results' = << >>
    /\ order' = << >>
    /\ progress' = 0
    /\ task' = << >>
    /\ pc' = "single_loop"
    /\ UNCHANGED << concurrency, total, sem, doneq, now, env, stats, stage,
                    all_stats, sleeps, report, printed >>

\* the next turn of the loop: make_request stamps `start` and issues its call
SingleIssue ==
    /\ pc = "single_loop"
    /\ Len(results) < SingleRuns
    /\ task' = Append(task, [NoTask EXCEPT !.st = "inflight", !.start = now])
    /\ pc' = "single_call"
    /\ UNCHANGED << concurrency, total, sem, doneq, results, order, progress,
                    now, env, stats, stage, all_stats, sleeps, report, printed >>

\* time passes while the call is in flight
SingleTick ==
    /\ pc = "single_call"
    /\ now - task[Len(task)].start < MaxLatency
    /\ now' = now + 1
    /\ UNCHANGED << concurrency, total, pc, sem, task, doneq, results, order,
                    progress, env, stats, stage, all_stats, sleeps, report,
                    printed >>

\* client.post returns or fails: make_request ends, its result is appended
\* and the progress advanced; a make_request that raised ends the driver.
SingleComplete ==
    /\ pc = "single_call"
    /\ now > task[Len(task)].start
    /\ \E o \in env :
         LET i == Len(task)
             r == make_request(o, task[i].start, now)
         IN  IF r.kind = "return"
             THEN /\ task' = [task EXCEPT ![i] = [NoTask EXCEPT
                                 !.st = "done", !.finished = i,
                                 !.outcome = Some(o), !.res = Some(r.value)]]
                  /\ results' = Append(results, r.value)
                  /\ order' = Append(order, i)
                  /\ progress' = progress + 1
                  /\ pc' = "single_loop"
             ELSE /\ task' = [task EXCEPT ![i] = [NoTask EXCEPT
                                 !.st = "failed", !.outcome = Some(o)]]
                  /\ pc' = "aborted"
                  /\ UNCHANGED << results, order, progress >>
    /\ UNCHANGED << concurrency, total, sem, doneq, now, env, stats, stage,
                    all_stats, sleeps, report, printed >>

\* the loop is over and test_single_request returns; main --single:
\* stats = calculate_stats(results); print_results(...)
SingleReport ==
    /\ pc = "single_loop"
    /\ ~(Len(results) < SingleRuns)
    /\ \E c \in {calculate_stats(results)} :
         /\ stats' = c
         /\ IF c.kind = "raise"
            THEN pc' = "crashed" /\ UNCHANGED printed
            ELSE \E p \in {print_results("Single Request (5 runs)", c.value)} :
                   IF p.kind = "raise"
                   THEN pc' = "crashed" /\ UNCHANGED printed
                   ELSE pc' = "reported" /\ printed' = Append(printed, p.value)
    /\ UNCHANGED << concurrency, total, sem, task, doneq, results, order,
                    progress, now, env, stage, all_stats, sleeps, report >>

\* main --single
SingleInit ==
    /\ concurrency = 0
    /\ total = 0
    /\ pc = "single"
    /\ env = RunOutcomes
    /\ sem = Semaphore(0)
    /\ task = << >>
    /\ doneq = << >>
    /\ results = << >>
    /\ order = << >>
    /\ progress = 0
    /\ now = 0
    /\ stats = NoStats
    /\ stage = 0
    /\ all_stats = << >>
    /\ sleeps = 0
    /\ report = None
    /\ printed = << >>

SingleNext ==
    SingleBegin \/ SingleIssue \/ SingleTick \/ SingleComplete \/ SingleReport

SingleSpec == SingleInit /\ [][SingleNext]_vars

----------------------------------------------------------------------------
(* run_ramp_test *)

\* for concurrency in [10, 20, 30, 40, 50]
RampLevels == << 10, 20, 30, 40, 50 >>

\* the stages of the modelled ramp, standing for (10, 50) ... (50, 250): the
\* concurrency of each and the total_requests = concurrency * 5 it is run with
ScaledPlan == << [concurrency |-> 1, requests |-> 2],
                 [concurrency |-> 2, requests |-> 3] >>

\* Recommended max: the breaking point less 10
RecommendStep == 10
\* asyncio.sleep(2)
CooldownSeconds == 2

\* stats["concurrency"] = concurrency
WithConcurrency(d, c) == d @@ [concurrency |-> c]

\* a stage breaks only above the target
breaks_above(p99) == p99 > P99Target

\* s["p99"] >= 800
breaks(p99) == p99 >= P99Target

\* the rows of the summary table: a stage without successes has none
SummaryRows(all) ==
    LET shown == SelectSeq(all, LAMBDA d : ~IsNoData(d))
    IN  [i \in DOMAIN shown |->
           [concurrent |-> shown[i].concurrency,
            p50 |-> shown[i].p50,
            p99 |-> shown[i].p99,
            throughput |-> shown[i].throughput,
            status |-> IF shown[i].p99 < P99Target THEN "OK" ELSE "DEGRADED"]]

\* the for/else that finds the breaking point
BreakingPoint(all) ==
    LET hits == {i \in DOMAIN all : ~IsNoData(all[i]) /\ breaks(all[i].p99)}
    IN  IF hits = {}
        THEN [kind |-> "all_passed"]
        ELSE LET i == CHOOSE j \in hits : \A k \in hits : j <= k
             IN  [kind |-> "breaking_point",
                  point |-> all[i].concurrency,
                  recommended |-> all[i].concurrency - RecommendStep]

\* what run_ramp_test prints after its loop
Summary(all) == [rows |-> SummaryRows(all), verdict |-> BreakingPoint(all)]

\* the summary loop or the breaking-point loop reads s["p50"], s["p99"] or
\* s["throughput"] of a dict that passed its sentinel test and has no such
\* key: a KeyError
summary_raises(all) ==
    \E i \in DOMAIN all :
      ~IsNoData(all[i]) /\ ~({"p50", "p99", "throughput"} \subseteq DOMAIN all[i])

\* run_ramp_test up to the first await of its first stage
RampBegin ==
    /\ pc = "ramp"
    /\ stage' = 1
    /\ all_stats' = << >>
    /\ StartRun(ScaledPlan[1].concurrency, ScaledPlan[1].requests)
    /\ pc' = "collecting"
    /\ UNCHANGED << now, env, stats, sleeps, report, printed >>

\* test_concurrent has returned: calculate_stats, the concurrency key, the
\* append to all_stats, print_results, and the cooldown sleep begins
RampStats ==
    /\ pc = "returned"
    /\ stage > 0
    /\ \E c \in {calculate_stats(results)} :
         /\ stats' = c
         /\ IF c.kind = "raise"
            THEN /\ pc' = "crashed"
                 /\ UNCHANGED << all_stats, printed >>
            ELSE \E d \in {WithConcurrency(c.value, concurrency)} :
                 \E p \in {print_results("Concurrency: " \o ToString(concurrency), d)} :
                   /\ all_stats' = Append(all_stats, d)
                   /\ IF p.kind = "raise"
                      THEN pc' = "crashed" /\ UNCHANGED printed
                      ELSE pc' = "cooldown" /\ printed' = Append(printed, p.value)
    /\ UNCHANGED << concurrency, total, sem, task, doneq, results, order,
                    progress, now, env, stage, sleeps, report >>

\* the sleep is over: the next stage starts, or the loop is over and the
\* summary and the breaking point are printed
RampCooldown ==
    /\ pc = "cooldown"
    /\ sleeps' = sleeps + 1
    /\ now' = now + (CooldownSeconds \div TickSeconds)
    /\ IF stage < Len(ScaledPlan)
       THEN /\ stage' = stage + 1
            /\ StartRun(ScaledPlan[stage + 1].concurrency,
                        ScaledPlan[stage + 1].requests)
            /\ pc' = "collecting"
            /\ UNCHANGED report
       ELSE /\ IF summary_raises(all_stats)
               THEN report' = None /\ pc' = "crashed"
               ELSE report' = Some(Summary(all_stats)) /\ pc' = "ramp_done"
            /\ UNCHANGED << concurrency, total, sem, task, doneq, results,
                            order, progress, stage >>
    /\ UNCHANGED << env, stats, all_stats, printed >>

\* main --ramp
RampInit ==
    /\ concurrency = 0
    /\ total = 0
    /\ pc = "ramp"
    /\ env = RunOutcomes
    /\ Idle

RampNext == RampBegin \/ RunNext \/ RampStats \/ RampCooldown

RampSpec == RampInit /\ [][RampNext]_vars

\* the summary on its own: five stage records at the real levels, each with
\* no success or with one of these p99 values
P99Samples == {200, 799, 800, 850}

\* the statistics of a stage at level c all of whose requests took p ms
StageStats(c, p) ==
    [total |-> c * 5, success |-> c * 5, errors |-> 0, min |-> p, max |-> p,
     avg |-> Rat(p, 1), p50 |-> p, p95 |-> p, p99 |-> p,
     throughput |-> Rat(1000, p), concurrency |-> c]

StageOutcomes(c) ==
    {StageStats(c, p) : p \in P99Samples} \cup {WithConcurrency(NoData, c)}

ExampleRamp ==
    [k \in DOMAIN RampLevels |->
       StageStats(RampLevels[k], << 200, 300, 400, 850, 900 >>[k])]

SummaryInit ==
    /\ concurrency = 0
    /\ total = 0
    /\ pc = "cooldown"
    /\ env = {}
    /\ sem = Semaphore(0)
    /\ task = [t \in Tasks |-> NoTask]
    /\ doneq = << >>
    /\ results = << >>
    /\ order = << >>
    /\ progress = 0
    /\ now = 0
    /\ stats = NoStats
    /\ stage = Len(RampLevels)
    /\ \/ all_stats \in [DOMAIN RampLevels -> UNION {StageOutcomes(c) : c \in Range(RampLevels)}]
          /\ \A k \in DOMAIN RampLevels : all_stats[k].concurrency = RampLevels[k]
       \/ all_stats = ExampleRamp
    /\ sleeps = Len(RampLevels) - 1
    /\ report = None
    /\ printed = [k \in DOMAIN RampLevels |->
                    print_results("Concurrency: " \o ToString(RampLevels[k]),
                                  all_stats[k]).value]

SummarySpec == SummaryInit /\ [][RampCooldown]_vars

----------------------------------------------------------------------------
(* calculate_stats on its own: the inputs of the statistics engine *)

\* most failed results mixed into an input
MaxFailures == 2

\* the numbers of successful results tried: around the p95 and p99 switches
SuccessCounts == {0, 1, 2, 3, 19, 20, 21, 99, 100, 101}

\* n distinct latencies, ascending for a = 1 and scrambled otherwise
SampleLatency(i, a) == 10 * (((a * i) % 103) + 1)

Successes(n, a) ==
    [i \in 1 .. n |-> RequestResult(SampleLatency(i, a), TRUE, None)]
Failures(f, lat) ==
    [i \in 1 .. f |-> RequestResult(lat, FALSE, Some("HTTP 500"))]

\* the two lists in turn while both last, then the rest of the longer one
Mix(a, b) ==
    LET m == IF Len(a) < Len(b) THEN Len(a) ELSE Len(b)
    IN  [k \in 1 .. (Len(a) + Len(b)) |->
           IF k <= 2 * m
           THEN IF k % 2 = 1 THEN a[(k + 1) \div 2] ELSE b[k \div 2]
           ELSE IF Len(a) > m THEN a[k - m] ELSE b[k - m]]

Ok(lat) == RequestResult(lat, TRUE, None)
Bad(lat) == RequestResult(lat, FALSE, Some(""))

ExampleInputs ==
    { << Ok(100), Ok(200), Ok(300) >>,
      << Bad(30000), Ok(300), Ok(100), Bad(7), Ok(200) >>,
      << Ok(0) >>,
      << Ok(0), Bad(250), Ok(0) >>,
      << Ok(0), Ok(50) >>,
      << Ok(250) >> }

StatsInputs ==
    { Mix(Successes(n, a), Failures(f, lat)) :
        n \in SuccessCounts, a \in {1, 7}, f \in 0 .. MaxFailures,
        lat \in {0, 30000} }
    \cup ExampleInputs

StatsInit ==
    /\ concurrency = 0
    /\ total = 0
    /\ pc = "stats_call"
    /\ env = {}
    /\ sem = Semaphore(0)
    /\ task = [t \in Tasks |-> NoTask]
    /\ doneq = << >>
    /\ results \in StatsInputs
    /\ order = << >>
    /\ progress = 0
    /\ now = 0
    /\ stats = NoStats
    /\ stage = 0
    /\ all_stats = << >>
    /\ sleeps = 0
    /\ report = None
    /\ printed = << >>

\* stats = calculate_stats(results)
CalcStats ==
    /\ pc = "stats_call"
    /\ stats' = calculate_stats(results)
    /\ pc' = "stats_done"
    /\ UNCHANGED << concurrency, total, sem, task, doneq, results, order,
                    progress, now, env, stage, all_stats, sleeps, report, printed >>

StatsSpec == StatsInit /\ [][CalcStats]_vars

----------------------------------------------------------------------------
(* The claims *)

Finished == {t \in Tasks : task[t].st \in {"done", "failed"}}
Invoked == {t \in Tasks : task[t].st \in {"inflight", "done", "failed"}}
RunOver == pc \in {"returned", "reported", "crashed"}

\* C1: in every reachable state of a fixed-concurrency run the number of
\* make_request invocations issued and not yet completed is at most the
\* concurrency limit.
C1_AtMostCOutstanding == Cardinality(InFlight) <= concurrency

\* C1 witness: the limit is reached with a task queueing behind it, after a
\* call has failed and released its slot.
C1_Witness ==
    /\ concurrency <= total
    /\ Cardinality(InFlight) = concurrency
    /\ \E t \in Tasks : task[t].st = "waiting"
    /\ \E t \in Finished : ~task[t].res[1].success

\* C2: a run never aborts, collects each finished invocation's result once
\* and in one piece, and has returned only with exactly N results of exactly
\* N invocations, whatever the mix of successes and failures.
C2_ExactlyNResults ==
    /\ pc # "aborted"
    /\ Len(results) = Len(order)
    /\ \A i, j \in DOMAIN order : order[i] = order[j] => i = j
    /\ \A i \in DOMAIN order :
         /\ task[order[i]].st = "done"
         /\ results[i] = task[order[i]].res[1]
    /\ \A t \in Finished : (t \in Range(doneq)) # (t \in Range(order))
    /\ \A i, j \in DOMAIN doneq : doneq[i] = doneq[j] => i = j
    /\ Invoked \subseteq 1 .. total
    /\ RunOver => /\ Len(results) = total
                  /\ Range(order) = 1 .. total
                  /\ Invoked = 1 .. total

\* C2 witness: a run of several requests has returned with failed and
\* successful results among them.
C2_Witness ==
    /\ pc = "returned"
    /\ total >= 2
    /\ \E i \in DOMAIN results : results[i].success
    /\ \E i \in DOMAIN results : ~results[i].success

\* C3: under fair scheduling the run terminates with all N results
\* collected and every invocation completed, and no invocation that queues
\* for a slot queues forever.
C3_AllEventuallyComplete ==
    /\ <>(/\ RunOver
          /\ Len(results) = total
          /\ \A t \in 1 .. total : task[t].st = "done")
    /\ \A t \in Tasks : (task[t].st = "waiting") ~> (task[t].st = "inflight")

\* C3 witness: a queued invocation has been handed the slot another one
\* released.
C3_Witness ==
    /\ \E t \in Tasks : task[t].st = "woken"
    /\ Finished # {}
    /\ \E t \in Tasks : task[t].st = "waiting"

\* C4: make_request never lets a failure escape: whatever client.post did,
\* the invocation ends with exactly one RequestResult, and a transport,
\* timeout or protocol failure gives success = false with the stringified
\* failure as error.
C4_NeverPropagates ==
    \A t \in Tasks :
      /\ task[t].st # "failed"
      /\ task[t].st = "done" =>
           /\ Len(task[t].res) = 1
           /\ DOMAIN task[t].res[1] = {"latency_ms", "success", "error"}
           /\ task[t].outcome[1].kind = "exception" =>
                /\ task[t].res[1].success = FALSE
                /\ task[t].res[1].error = Some(task[t].outcome[1].msg)

\* C4 witness: each of the three kinds of failure has produced a result.
C4_Witness ==
    \E t, u \in Tasks :
      /\ task[t].st = "done" /\ task[t].outcome = Some(ReadTimeout)
      /\ task[t].res[1].error = Some("")
      /\ task[u].st = "done" /\ task[u].outcome = Some(ConnectError)
      /\ task[u].res[1].error = Some("All connection attempts failed")

\* C5: every response with a 2xx status gives success = true without an
\* error, and every other response gives success = false with the error
\* "HTTP <status-code>".
C5_SuccessIs2xx ==
    \A t \in Tasks :
      (task[t].st = "done" /\ task[t].outcome[1].kind = "response") =>
        LET code == task[t].outcome[1].status
            r == task[t].res[1]
        IN  IF 200 <= code /\ code <= 299
            THEN r.success = TRUE /\ r.error = None
            ELSE r.success = FALSE /\ r.error = Some("HTTP " \o ToString(code))

\* the successful results of the input, by position
SuccIdx == {i \in DOMAIN results : results[i].success}

\* the k-th smallest (k from 0) latency among the successful results
KthLatency(k) ==
    CHOOSE v \in {results[i].latency_ms : i \in SuccIdx} :
      /\ Cardinality({i \in SuccIdx : results[i].latency_ms < v}) <= k
      /\ k < Cardinality({i \in SuccIdx : results[i].latency_ms <= v})

RECURSIVE LatencySum(_)
LatencySum(I) ==
    IF I = {} THEN 0
    ELSE LET i == CHOOSE j \in I : TRUE
         IN  results[i].latency_ms + LatencySum(I \ {i})

StatsFields == {"total", "success", "errors", "min", "max", "avg",
                "p50", "p95", "p99", "throughput"}

\* calculate_stats returned a full statistics record
FullRecord == /\ pc = "stats_done"
              /\ stats.kind = "return"
              /\ DOMAIN stats.value = StatsFields

\* the tasks of the current stage that are launched and not finished
Unfinished ==
    {t \in Tasks : task[t].st \in {"ready", "waiting", "woken", "inflight"}}

\* C6: the stages of a ramp run one after the other: while requests of
\* stage K exist, the results of all K-1 stages before it have been collected
\* and turned into statistics and K-1 cooldowns have elapsed; and once the
\* driver has left test_concurrent no request of the stage is outstanding or
\* uncollected, so requests of two levels are never outstanding together.
C6_StagesSequential ==
    /\ Unfinished # {} =>
         /\ pc = "collecting"
         /\ stage \in DOMAIN ScaledPlan
         /\ concurrency = ScaledPlan[stage].concurrency
         /\ \A t \in Tasks : task[t].st # "none" => t <= ScaledPlan[stage].requests
         /\ Len(all_stats) = stage - 1
         /\ sleeps = stage - 1
    /\ pc \in {"returned", "cooldown", "ramp_done"} =>
         /\ Unfinished = {}
         /\ doneq = << >>
         /\ Len(results) = total
    /\ pc = "cooldown" => Len(all_stats) = stage /\ sleeps = stage - 1
    /\ pc = "ramp_done" => Len(all_stats) = stage /\ sleeps = stage

\* C6 witness: a request of the second stage is in flight, after the first
\* stage's statistics and one cooldown.
C6_Witness ==
    /\ stage = 2
    /\ \E t \in Tasks : task[t].st = "inflight"
    /\ \E t \in Tasks : task[t].st = "waiting"
    /\ Len(all_stats) = 1
    /\ sleeps = 1

\* C7: over the ascending latencies of the n successful results, p50 is the
\* element at floor(0.50 n); p95 the element at floor(0.95 n) when n >= 20
\* and the maximum below; p99 the element at floor(0.99 n) when n >= 100 and
\* the maximum below.
C7_Percentiles ==
    FullRecord =>
      LET n == Cardinality(SuccIdx)
      IN  /\ stats.value.p50 = KthLatency(n \div 2)
          /\ stats.value.p95 = IF n >= 20 THEN KthLatency((95 * n) \div 100)
                                          ELSE KthLatency(n - 1)
          /\ stats.value.p99 = IF n >= 100 THEN KthLatency((99 * n) \div 100)
                                           ELSE KthLatency(n - 1)

\* C7 witness: 101 successes among failures, where p50, p95, p99 and the
\* maximum are four different latencies.
C7_Witness ==
    /\ FullRecord
    /\ Cardinality(SuccIdx) = 101
    /\ Len(results) > 101
    /\ stats.value.p50 < stats.value.p95
    /\ stats.value.p95 < stats.value.p99
    /\ stats.value.p99 < stats.value.max

\* C8: calculate_stats returns the sentinel exactly when no result is
\* successful, and a full statistics record whenever one is.
C8_SentinelIffNoSuccess ==
    pc = "stats_done" =>
      /\ SuccIdx = {} => stats = Return(NoData)
      /\ SuccIdx # {} => FullRecord

\* C9: the reported throughput is the number of successful results divided
\* by the sum of their latencies in seconds, whatever the failed results are.
C9_Throughput ==
    FullRecord =>
      /\ stats.value.throughput.den > 0
      /\ stats.value.throughput.num * LatencySum(SuccIdx)
           = stats.value.throughput.den * 1000 * Cardinality(SuccIdx)
      /\ {results[i].latency_ms : i \in SuccIdx} = {100, 200, 300}
           /\ Cardinality(SuccIdx) = 3
           => stats.value.throughput = [num |-> 5, den |-> 1]

\* C9 witness: successes of 100, 200 and 300 ms among failed results with
\* other latencies give 5.0.
C9_Witness ==
    /\ FullRecord
    /\ {results[i].latency_ms : i \in SuccIdx} = {100, 200, 300}
    /\ Cardinality(SuccIdx) = 3
    /\ Len(results) = 5
    /\ stats.value.throughput = [num |-> 5, den |-> 1]

\* the levels whose stage has a p99 of at least 800 ms
BrokenLevels ==
    {all_stats[k].concurrency : k \in
       {j \in DOMAIN all_stats :
          "p99" \in DOMAIN all_stats[j] /\ all_stats[j].p99 >= 800}}

P99s == [k \in DOMAIN all_stats |->
           IF "p99" \in DOMAIN all_stats[k] THEN all_stats[k].p99 ELSE -1]

\* C10: after the stages exactly one verdict is reported: the lowest level
\* whose p99 is at least 800 ms as breaking point, with that level less 10
\* as recommended maximum, or, when no stage's p99 reaches 800 ms, that all
\* levels were sustained.
C10_BreakingPoint ==
    pc = "ramp_done" =>
      /\ Len(report) = 1
      /\ BrokenLevels = {} => report[1].verdict = [kind |-> "all_passed"]
      /\ BrokenLevels # {} =>
           \E c \in BrokenLevels :
             /\ \A d \in BrokenLevels : c <= d
             /\ report[1].verdict = [kind |-> "breaking_point", point |-> c,
                                     recommended |-> c - 10]
      /\ P99s = << 200, 300, 400, 850, 900 >> =>
           report[1].verdict = [kind |-> "breaking_point", point |-> 40,
                                recommended |-> 30]

\* C10 witness: the p99 values 200, 300, 400, 850, 900 at the levels 10 to
\* 50 have been reported as breaking point 40, recommended 30.
C10_Witness ==
    /\ pc = "ramp_done"
    /\ P99s = << 200, 300, 400, 850, 900 >>
    /\ [k \in DOMAIN all_stats |-> all_stats[k].concurrency] = << 10, 20, 30, 40, 50 >>
    /\ report[1].verdict.point = 40
    /\ report[1].verdict.recommended = 30

\* C11: test_concurrent called with a concurrency C and no request count
\* runs N = C x 5 requests, for every C.
C11_DefaultIsFiveTimesC ==
    pc = "collecting" =>
      /\ total = concurrency * 5
      /\ Cardinality({t \in DOMAIN task : task[t].st = "ready"}) = concurrency * 5

\* C12: the results are collected in completion order: the k-th element
\* appended to results is the result of the k-th invocation to complete,
\* whatever its place in the launch order, and while a completed result is
\* uncollected the driver is not blocked: it can take that result at once.
C12_CompletionOrder ==
    /\ \A k \in DOMAIN order :
         /\ task[order[k]].finished = k
         /\ results[k] = task[order[k]].res[1]
    /\ (pc = "collecting" /\ \E t \in Finished : t \notin Range(order))
         => ENABLED Collect

\* C12 witness: the result of the second task created is the first one
\* collected while the first task created is still in flight.
C12_Witness ==
    /\ pc = "collecting"
    /\ order # << >>
    /\ order[1] = 2
    /\ task[2].finished = 1
    /\ task[1].st = "inflight"

\* C13: calculate_stats has no failing path: for every non-empty input with
\* latencies of at least 0, successful results of latency 0 included, it
\* returns the sentinel or a full record with a defined throughput and raises
\* no arithmetic error.
C13_NoFailingPath ==
    (/\ pc = "stats_done"
     /\ results # << >>
     /\ \A i \in DOMAIN results : results[i].latency_ms >= 0)
      => /\ stats.kind = "return"
         /\ \/ stats.value = NoData
            \/ /\ DOMAIN stats.value = StatsFields
               /\ stats.value.throughput.den > 0

\* the invocations that hold a slot: their call is in flight, or release()
\* has handed them the permit and they are about to issue it
Holding == {t \in Tasks : task[t].st \in {"inflight", "woken"}}

\* C14: every invocation holds a slot from before its call is issued until
\* the call's outcome is known, and gives it back on success and on failure
\* alike: the free permits and the invocations holding a slot always add up
\* to C, and when the run is over all C permits are free.
C14_SlotAccounting ==
    pc # "main" =>
      /\ sem.value >= 0
      /\ sem.value + Cardinality(Holding) = concurrency
      /\ \A t \in InFlight : task[t].acquired <= task[t].start
      /\ \A t \in Tasks : task[t].st \in {"ready", "waiting"} =>
           task[t].outcome = None /\ task[t].res = None
      /\ RunOver => sem.value = concurrency /\ sem.waiters = << >>

\* C14 witness: a call has failed, its slot went to a queued invocation, and
\* no permit is free.
C14_Witness ==
    /\ pc = "collecting"
    /\ \E t \in Finished : ~task[t].res[1].success
    /\ \E t \in Tasks : task[t].st = "woken"
    /\ sem.value = 0
    /\ Cardinality(Holding) = concurrency

\* the stage records of all_stats that carry numbers, in stage order
WithNumbers == SelectSeq(all_stats, LAMBDA d : "p99" \in DOMAIN d)

\* C15: no consumer of a stage's record reads a number of the sentinel:
\* print_results prints the sentinel's message and nothing else, the ramp
\* never stops on such a record, and it ends only after all its stages, with
\* a summary row for exactly the stages that had a success and a breaking
\* point that is one of them.
C15_SentinelChecked ==
    /\ pc # "crashed"
    /\ Len(printed) = Len(all_stats)
    /\ \A k \in DOMAIN all_stats :
         IF "p99" \in DOMAIN all_stats[k]
         THEN printed[k].kind = "table"
         ELSE /\ DOMAIN all_stats[k] = {"error", "concurrency"}
              /\ printed[k].kind = "error"
              /\ printed[k].text = "No successful requests"
    /\ pc = "ramp_done" =>
         /\ Len(all_stats) = Len(ScaledPlan)
         /\ Len(report) = 1
         /\ Len(report[1].rows) = Len(WithNumbers)
         /\ \A i \in DOMAIN WithNumbers :
              /\ report[1].rows[i].concurrent = WithNumbers[i].concurrency
              /\ report[1].rows[i].p99 = WithNumbers[i].p99
         /\ report[1].verdict.kind = "breaking_point" =>
              \E i \in DOMAIN WithNumbers :
                report[1].verdict.point = WithNumbers[i].concurrency
         /\ WithNumbers = << >> => report[1].verdict.kind = "all_passed"

\* C15 witness: every request of the first stage failed, the second stage
\* ran and had successes, and the summary has the second stage's row only.
C15_Witness ==
    /\ pc = "ramp_done"
    /\ DOMAIN all_stats[1] = {"error", "concurrency"}
    /\ "p99" \in DOMAIN all_stats[2]
    /\ Len(report[1].rows) = 1
    /\ report[1].rows[1].concurrent = ScaledPlan[2].concurrency
    /\ report[1].verdict.kind = "breaking_point"
    /\ report[1].verdict.point = ScaledPlan[2].concurrency

\* C16: the ramp pauses exactly between consecutive levels: once after each
\* stage but the last and before the next stage starts (4 pauses for the
\* five levels), and the summary follows the last stage's results without a
\* further pause.
C16_CooldownBetweenLevels ==
    /\ (stage > 0 /\ pc \in {"collecting", "returned", "cooldown"}) =>
         sleeps = stage - 1
    /\ pc = "ramp_done" => sleeps = Len(ScaledPlan) - 1

\* C17: the single-shot driver issues exactly 5 calls one after the other:
\* a call is issued only when every call before it has completed and its
\* result is appended, so at most one call is outstanding; the results are
\* in launch order, the progress has advanced once per completed call, and a
\* failed call does not stop the calls after it.
C17_SingleSequential ==
    /\ pc # "aborted"
    /\ Len(task) <= SingleRuns
    /\ Cardinality({t \in DOMAIN task : task[t].st = "inflight"}) <= 1
    /\ \A t \in DOMAIN task :
         /\ task[t].st \in {"inflight", "done"}
         /\ \A u \in 1 .. (t - 1) :
              /\ task[u].st = "done"
              /\ u \in DOMAIN results
              /\ results[u] = task[u].res[1]
    /\ order = [k \in 1 .. Len(results) |-> k]
    /\ progress = Cardinality({t \in DOMAIN task : task[t].st = "done"})
    /\ progress = Len(results)
    /\ pc \in {"reported", "crashed"} =>
         /\ Len(task) = SingleRuns
         /\ Len(results) = SingleRuns
         /\ \A t \in DOMAIN task : task[t].st = "done"

\* C17 witness: the driver has returned its 5 results, a failed call among
\* them with a successful call after it.
C17_Witness ==
    /\ pc = "reported"
    /\ Len(results) = 5
    /\ progress = 5
    /\ \E i \in 1 .. 4 : ~results[i].success /\ results[i + 1].success

\* C18: the three judgements of a stage's p99 against 800 ms agree for every
\* p99, exactly 800 included: the stage's table marks P99 PASS if and only if
\* the summary marks the stage OK, if and only if p99 < 800, if and only if
\* the stage does not count as a breaking point; and the table marks P50 and
\* P95 PASS only when they are strictly below 300 ms and 500 ms.
C18_TargetsAgree ==
    pc = "ramp_done" =>
         /\ \A k \in DOMAIN all_stats :
              "p99" \in DOMAIN all_stats[k] =>
                /\ (printed[k].p99 = "PASS") <=> (all_stats[k].p99 < 800)
                /\ printed[k].p50 = "PASS" => all_stats[k].p50 < 300
                /\ printed[k].p95 = "PASS" => all_stats[k].p95 < 500
         /\ \A i \in DOMAIN WithNumbers :
              (report[1].rows[i].status = "OK") <=> (WithNumbers[i].p99 < 800)
         /\ (report[1].verdict.kind = "all_passed") <=>
              (\A i \in DOMAIN WithNumbers : report[1].rows[i].status = "OK")
         /\ report[1].verdict.kind = "breaking_point" =>
              \E i \in DOMAIN WithNumbers :
                /\ report[1].verdict.point = WithNumbers[i].concurrency
                /\ report[1].rows[i].status = "DEGRADED"
                /\ \A j \in 1 .. (i - 1) : report[1].rows[j].status = "OK"

\* the latencies of the successful results of the input
SuccLatencies == {results[i].latency_ms : i \in SuccIdx}

\* C19: in every full statistics record total = success + errors, success
\* is the number of successful input results and at least 1; min, avg, max
\* and the percentiles are taken over the successful results only; every
\* percentile index floor(n * fraction) lies within 0..n-1; and
\* min <= p50 <= p95 <= p99 <= max.
C19_RecordConsistent ==
    FullRecord =>
      LET r == stats.value
          n == Cardinality(SuccIdx)
      IN  /\ r.total = Len(results)
          /\ r.total = r.success + r.errors
          /\ r.success = n
          /\ r.success >= 1
          /\ r.errors = Cardinality(DOMAIN results \ SuccIdx)
          /\ r.min \in SuccLatencies /\ \A v \in SuccLatencies : r.min <= v
          /\ r.max \in SuccLatencies /\ \A v \in SuccLatencies : r.max >= v
          /\ r.avg.den > 0
          /\ r.avg.num * n = r.avg.den * LatencySum(SuccIdx)
          /\ {r.p50, r.p95, r.p99} \subseteq SuccLatencies
          /\ (50 * n) \div 100 \in 0 .. (n - 1)
          /\ n >= 20 => (95 * n) \div 100 \in 0 .. (n - 1)
          /\ n >= 100 => (99 * n) \div 100 \in 0 .. (n - 1)
          /\ r.min <= r.p50 /\ r.p50 <= r.p95 /\ r.p95 <= r.p99 /\ r.p99 <= r.max

\* C19 witness: a record over three successes among two failed results, one
\* faster than every success and one slower.
C19_Witness ==
    /\ FullRecord
    /\ stats.value.total = 5 /\ stats.value.success = 3 /\ stats.value.errors = 2
    /\ \E i \in DOMAIN results \ SuccIdx : results[i].latency_ms < stats.value.min
    /\ \E i \in DOMAIN results \ SuccIdx : results[i].latency_ms > stats.value.max
    /\ stats.value.min < stats.value.p50
    /\ stats.value.p50 < stats.value.max

\* C20: the latency of an invocation is measured while it holds its slot:
\* the start stamp is the time the call is issued, not before the slot was
\* acquired; the latency recorded is the time from that stamp to the moment
\* the outcome is known, which is when the slot is released; so it is at
\* most the time the slot was held and includes no time spent waiting.
C20_LatencyWhileHolding ==
    [][\A t \in Tasks :
         /\ (task[t].st # "inflight" /\ task'[t].st = "inflight") =>
              /\ task'[t].start = now
              /\ task'[t].acquired <= task'[t].start
              /\ sem'.value + Cardinality({u \in Tasks :
                     task'[u].st \in {"inflight", "woken"}}) = concurrency
         /\ (task[t].st = "inflight" /\ task'[t].st = "done") =>
              /\ task[t].acquired <= task[t].start
              /\ task'[t].res[1].latency_ms
                   = ((now - task[t].start) * TickSeconds) * 1000
              /\ task'[t].res[1].latency_ms
                   <= ((now - task[t].acquired) * TickSeconds) * 1000
              /\ sem'.value + Cardinality({u \in Tasks :
                     task'[u].st \in {"inflight", "woken"}}) = concurrency
    ]_vars

\* C20 witness: through one slot a second invocation has finished two ticks
\* into the run with a latency of one tick: the tick it spent waiting for
\* the slot is not in its latency.
C20_Witness ==
    /\ concurrency = 1
    /\ now = 2
    /\ \E t \in Tasks :
         /\ task[t].st = "done"
         /\ task[t].finished = 2
         /\ task[t].res[1].latency_ms = TickSeconds * 1000

============================================================================
